---------------------------- MODULE Spec2Model ----------------------------
(***************************************************************************)
(* Model of the Drive Embedder upload pipeline: GoogleDriveUploader        *)
(* (src/src/uploader.ts) driven by the plugin (src/main.ts).               *)
(*                                                                         *)
(* One uploader object (one config) is shared by the uploadFile calls of   *)
(* the processes in Procs.  An uploadFile call is cut at its real          *)
(* suspension points (the awaits of a network request, of the file read    *)
(* and of the persistence callback); the code between two suspension       *)
(* points runs without interleaving, as on the JavaScript event loop.      *)
(* The call of ensureValidToken is a step of its own (pc = "tok"); when    *)
(* it returns a token the request of the calling site is sent in the same  *)
(* step.                                                                   *)
(*                                                                         *)
(* Tokens are numbers: 0 is the empty string, InitTok the token the        *)
(* uploader is constructed with, larger numbers are issued by refreshes.   *)
(***************************************************************************)
EXTENDS Integers, Sequences, FiniteSets, TLC

\* ---------------------------------------------------------------- bounds
MaxTime == 2
ConcMaxTime == 1
SeqMaxTime == 1
MaxTok == 3
MaxRuns == 2
MaxFolders == 3
MaxFiles == 2
MaxAuth == 2

\* -------------------------------------------------------------- constants
Procs == {1, 2}
InitTok == 1
RefreshTok == 1
NewRefreshTok == 2
Root == 0
SafetyMargin == 1
ExpiresIn == 3
FileBase == 100

Paths == { <<>>, <<"A">>, <<"", "A", "B">>, <<"A", "B", "C">> }
InitExpiries == {0, 1, 3}

\* which of webViewLink, webContentLink a response of the provider carries
LinkOptions == [view : BOOLEAN, content : BOOLEAN]
BothLinks == { [view |-> TRUE, content |-> TRUE] }
NoLinks == [view |-> FALSE, content |-> FALSE]

\* the calls of startOAuthFlow, the state nonces, and no owner of the port
AuthCalls == 1..MaxAuth
Nonces == {1, 2}
NoOne == 0

\* the refresh-token value of a refresh response: none, the one sent, a new one
RefreshResponses == {0, RefreshTok, NewRefreshTok}
SameRefreshToken == {RefreshTok}

SeqPaths == { <<>>, <<"", "A">>, <<"A", "B", "C">> }
ConcPaths == { <<"A">> }
\* concurrent callers start with no expiry recorded or with an expired token
ConcExpiries == {0, 1}

VARIABLES
    plugin,     \* the plugin: its credentials settings and its services
    flow,       \* the authorization flow of each call of startOAuthFlow
    listener,   \* the call whose listener holds the redirect port, or NoOne
    scn,        \* the scenario: the clock's horizon, the callers' paths, the
                \* link fields the provider's responses may carry and the
                \* expiry times the stored token may start with, the
                \* refresh-token values a refresh response may carry, the
                \* credentials the plugin is loaded with
    now,        \* the clock
    config,     \* GoogleDriveUploader.config
    settings,   \* the token fields of the plugin's settings
    persisted,  \* access tokens whose onTokenRefresh has completed
    nextTok,    \* next access token the provider issues
    folders,    \* the backend's folders: records [id, name, parent]
    files,      \* the backend's files: records [id, parent]
    perms,      \* ids of the files with an anyone/reader permission
    u           \* per process: the state of its uploadFile call

vars == <<plugin, flow, listener, scn, now, config, settings, persisted, nextTok, folders, files, perms, u>>

\* ------------------------------------------------------- progress events
EvPreparing == [stage |-> "preparing", progress |-> 10]
EvUploading == [stage |-> "uploading", progress |-> 30]
EvPermission == [stage |-> "setting-permission", progress |-> 70]
EvComplete == [stage |-> "complete", progress |-> 100]
EvError == [stage |-> "error", progress |-> 0]

NoResult == [kind |-> "none", fileId |-> 0]
NullResult == [kind |-> "null", fileId |-> 0]
OkResult(id) == [kind |-> "ok", fileId |-> id]

\* ------------------------------------------------------------ pure parts
\* folderPath.split('/').filter(p => p.length > 0)
Parts(path) == SelectSeq(path, LAMBDA s : s # "")

\* GoogleOAuthFlow.isTokenExpired: expired once now + margin reaches expiry
isTokenExpired(expiresAt, t) == t + SafetyMargin >= expiresAt

\* GoogleOAuthFlow.refreshAccessToken resolves with the token the provider
\* issued; expires_in is converted to an absolute instant on receipt
refreshAccessToken(tok, t) == [accessToken |-> tok, expiresAt |-> t + ExpiresIn]

NeedsRefresh_always(cfg, t) ==
    /\ cfg.tokenExpiresAt # 0
    /\ cfg.refreshToken # 0

\* the guard of the refresh branch of ensureValidToken
NeedsRefresh(cfg, t) ==
    /\ cfg.tokenExpiresAt # 0
    /\ cfg.refreshToken # 0
    /\ isTokenExpired(cfg.tokenExpiresAt, t)

\* the refresh stores the refresh token of the response as well
AfterRefresh_takesRefreshToken(cfg, newTokens, rt) ==
    [cfg EXCEPT !.accessToken = newTokens.accessToken,
                !.tokenExpiresAt = newTokens.expiresAt,
                !.refreshToken = rt]

\* the config after a refresh: the access token and the expiry of the
\* response; rt, the refresh token of the response, is not stored
AfterRefresh(cfg, newTokens, rt) ==
    [cfg EXCEPT !.accessToken = newTokens.accessToken,
                !.tokenExpiresAt = newTokens.expiresAt]

\* the record of a process's latest call of ensureValidToken: whether the
\* token was expired at the call, the token stored then, the refresh
\* exchanges and callback invocations of the call, the token the exchange
\* issued and the token returned (0: none, or the call threw)
NoCall == [made |-> FALSE, open |-> FALSE, expired |-> FALSE, old |-> 0, exch |-> 0,
           persist |-> 0, issued |-> 0, ret |-> 0, rt |-> 0, oldExp |-> 0]
NewCall(cfg, t) == [made |-> TRUE, open |-> TRUE, expired |-> isTokenExpired(cfg.tokenExpiresAt, t),
                    old |-> cfg.accessToken, exch |-> 0, persist |-> 0,
                    issued |-> 0, ret |-> 0, rt |-> 0,
                    oldExp |-> cfg.tokenExpiresAt]

\* a URL of the result: the provider's for file id, or made from the id
NoUrl == [src |-> "none", id |-> 0]
ProviderUrl(id) == [src |-> "provider", id |-> id]
FallbackUrl(id) == [src |-> "synth", id |-> id]

\* fileInfo.webViewLink || `https://drive.google.com/file/d/${fileId}/view`
ResultUrl(present, id) == IF present THEN ProviderUrl(id) ELSE FallbackUrl(id)

\* error.message of the Error that reaches uploadFile's catch
ErrorMessage(why) ==
    CASE why = "refresh-failed" -> "Token refresh failed. Please reconnect Google Drive."
      [] why = "not-connected" -> "Not connected to Google Drive. Please connect first."
      [] why = "folder" -> "Folder creation failed"
      [] why = "read" -> "file read failed"
      [] why = "upload" -> "Upload failed"
      [] OTHER -> ""

\* the Notice of the upload dialog
NoNotice == [text |-> "", detail |-> ""]
CompleteNotice == [text |-> "Upload complete! Embed code generated.", detail |-> ""]
FailedNotice(message) == [text |-> "Upload failed", detail |-> message]

\* the upload dialog of a caller: none open, and one with a file selected
\* selected: this.selectedFile; argFile: the file handed to onComplete
LocalFiles == {1, 2}
NoModal == [open |-> FALSE, disabled |-> TRUE, handled |-> TRUE,
            notice |-> NoNotice, nComplete |-> 0, arg |-> NoResult,
            selected |-> 0, argFile |-> 0, cancelled |-> FALSE]
OpenModal == [NoModal EXCEPT !.open = TRUE, !.disabled = FALSE, !.selected = 1]

\* processFile: the file becomes this.selectedFile, the button is enabled
ProcessFile(m, file) == [m EXCEPT !.selected = file, !.disabled = FALSE]

\* the Cancel button: close(); onClose only empties the content
CancelModal(m) == [m EXCEPT !.open = FALSE, !.cancelled = TRUE]

\* handleUpload up to its await: the Upload button is disabled
Click(m) == [m EXCEPT !.disabled = TRUE, !.handled = FALSE,
                      !.notice = NoNotice, !.nComplete = 0, !.arg = NoResult,
                      !.argFile = 0]

\* the completion callback is invoked whatever uploadFile returned
Resume_noNullCheck(m, result) ==
    [m EXCEPT !.handled = TRUE, !.open = FALSE,
              !.notice = CompleteNotice,
              !.nComplete = @ + 1, !.arg = result, !.argFile = m.selected]

\* handleUpload after its await: a null result is thrown as an Error of
\* the dialog's own and caught; otherwise onComplete(result) and close()
Resume(m, result) ==
    IF result.kind = "null"
    THEN [m EXCEPT !.handled = TRUE, !.disabled = FALSE,
                   !.notice = FailedNotice("Failed to receive upload result.")]
    ELSE [m EXCEPT !.handled = TRUE, !.open = FALSE,
                   !.notice = CompleteNotice,
                   !.nComplete = @ + 1, !.arg = result, !.argFile = m.selected]

NoRun == [path |-> <<>>, folderId |-> Root, resolved |-> FALSE, clean |-> FALSE,
          startedEmpty |-> FALSE, nCreate |-> 0, nLookup |-> 0]

InitLocal(runs) ==
    [pc |-> "idle", site |-> "none", runsLeft |-> runs,
     path |-> <<>>, idx |-> 0, parentId |-> Root,
     accessToken |-> 0, fileId |-> 0, nUpload |-> 0, file |-> 0,
     fileData |-> NoLinks, fileInfo |-> NoLinks,
     links |-> [view |-> NoUrl, content |-> NoUrl],
     events |-> <<>>, result |-> NoResult,
     sent |-> [tok |-> 0, cur |-> 0],
     failed |-> "none", permFailed |-> "no", error |-> "",
     modal |-> NoModal,
     refreshFailed |-> FALSE, retried |-> FALSE, lookupFailed |-> FALSE,
     afterDisconnect |-> FALSE,
     call |-> NoCall, run |-> NoRun, prev |-> NoRun]

\* the request of a site leaves with token t while cfg is the token state
Send(l, t, cfg, nextPc) ==
    [l EXCEPT !.pc = nextPc, !.sent = [tok |-> t, cur |-> cfg.accessToken]]

\* the call of ensureValidToken at a site
CallToken(l, s) == [l EXCEPT !.pc = "tok", !.site = s]

\* a step of uploadFile has thrown
Failed(l, why) == [l EXCEPT !.failed = why]

Catch_rethrow(l) ==
    [l EXCEPT !.pc = "done", !.site = "none", !.error = ErrorMessage(l.failed)]

\* the catch block of uploadFile
Catch(l) ==
    [l EXCEPT !.pc = "done", !.site = "none",
              !.events = Append(@, EvError),
              !.error = ErrorMessage(l.failed),
              !.result = NullResult]

Complete_skipEvent(l) ==
    [l EXCEPT !.pc = "done", !.site = "none", !.result = OkResult(l.fileId)]

\* stage 4 and the return of uploadFile
Complete(l) ==
    [l EXCEPT !.pc = "done", !.site = "none",
              !.events = Append(@, EvComplete),
              !.result = OkResult(l.fileId),
              !.links = [view |-> ResultUrl(l.fileInfo.view, l.fileId),
                         content |-> ResultUrl(l.fileInfo.content, l.fileId)]]

\* ensureFolder: the loop head for segment l.idx, parent l.parentId
EnsureFolderNext(l) ==
    IF l.idx <= Len(Parts(l.path))
    THEN CallToken(l, "find")
    ELSE [l EXCEPT !.pc = "read", !.site = "none",
                   !.run.folderId = l.parentId, !.run.resolved = TRUE]

\* findFolder returned an id, or createFolder returned one
FolderStep(l, id) ==
    EnsureFolderNext([l EXCEPT !.parentId = id, !.idx = @ + 1,
                               !.lookupFailed = FALSE])

\* findFolder returned null: ensureFolder calls createFolder
FindNull(l) == CallToken(l, "create")

\* makeFilePublic is called again once it has ended
AfterPublic_again(l) == CallToken(l, "public")

\* makeFilePublic has ended (its catch swallows every error)
AfterPublic(l) == CallToken(l, "info")

PublicFailed_throws(l, why) == Catch([l EXCEPT !.permFailed = why])

\* the catch block of makeFilePublic; why: its request or its token call threw
PublicFailed(l, why) == AfterPublic([l EXCEPT !.permFailed = why])

\* ensureValidToken returns the token of cfg to the calling site
Return(l, cfg) ==
    LET t == cfg.accessToken
        l1 == [l EXCEPT !.call.open = FALSE, !.call.ret = t]
    IN  CASE l.site = "upload97" ->
               EnsureFolderNext([l1 EXCEPT !.accessToken = t, !.idx = 1,
                                           !.parentId = Root])
          [] l.site = "find" ->
               Send([l1 EXCEPT !.run.nLookup = @ + 1], t, cfg, "findReq")
          [] l.site = "create" ->
               Send([l1 EXCEPT !.run.nCreate = @ + 1], t, cfg, "createReq")
          [] l.site = "public" -> Send(l1, t, cfg, "publicReq")
          [] l.site = "info" -> Send(l1, t, cfg, "infoReq")

\* ensureValidToken throws at the calling site
Throw(l, why) ==
    LET l1 == [l EXCEPT !.call.open = FALSE, !.call.ret = 0]
    IN  CASE l.site = "upload97" -> Catch(Failed(l1, why))
          [] l.site = "find" -> FindNull([l1 EXCEPT !.run.clean = FALSE,
                                                    !.lookupFailed = TRUE])
          [] l.site = "create" -> Catch(Failed([l1 EXCEPT !.run.clean = FALSE], why))
          [] l.site = "public" -> PublicFailed(l1, "token")
          [] l.site = "info" -> Complete(l1)

\* lines 74-78 of ensureValidToken
CheckAndReturn(l, cfg) ==
    IF cfg.accessToken = 0 THEN Throw(l, "not-connected") ELSE Return(l, cfg)

\* ---------------------------------------------------------------- Init
\* the client id and client secret the plugin starts with
InitCreds == [id |-> 1, secret |-> 1]
\* no credentials; also: no service object (this.oauthFlow, this.uploader)
NoCreds == [id |-> 0, secret |-> 0]

\* initializeServices leaves nothing behind when a credential is empty
InitializeServices_clears(pl, st) ==
    IF pl.creds.id # 0 /\ pl.creds.secret # 0
    THEN [pl EXCEPT !.oauthFlow = pl.creds,
                    !.uploader = IF st.accessToken # 0 THEN pl.creds ELSE @]
    ELSE [pl EXCEPT !.oauthFlow = NoCreds, !.uploader = NoCreds]

\* initializeServices: with both credentials set, a new GoogleOAuthFlow
\* and, when the settings hold an access token, a new GoogleDriveUploader
InitializeServices(pl, st) ==
    IF pl.creds.id # 0 /\ pl.creds.secret # 0
    THEN [pl EXCEPT !.oauthFlow = pl.creds,
                    !.uploader = IF st.accessToken # 0 THEN pl.creds ELSE @]
    ELSE pl

\* saveSettings has resolved: saveData, then initializeServices
Saved(pl, st) == [InitializeServices(pl, st) EXCEPT !.pending = "none", !.fresh = TRUE]

\* isConnected() of the plugin
IsConnected == settings.accessToken # 0 /\ plugin.uploader # NoCreds

\* a call of startOAuthFlow that has not begun
NoFlow == [st |-> "Idle", nonce |-> 0, got |-> 0, exchanged |-> FALSE,
           outcome |-> "none", tokens |-> 0, stored |-> FALSE, ret |-> "none",
           saved |-> FALSE]

\* the plugin after onload with credentials c and stored tokens
LoadedPlugin(c) ==
    [InitializeServices([creds |-> c, oauthFlow |-> NoCreds, uploader |-> NoCreds,
                         pending |-> "none", fresh |-> TRUE, disconnected |-> FALSE,
                         uploaderDisconnected |-> FALSE],
                        [accessToken |-> InitTok])
     EXCEPT !.fresh = TRUE]

InitShared ==
    /\ plugin = LoadedPlugin(scn.creds)
    /\ flow = [c \in AuthCalls |-> NoFlow]
    /\ listener = NoOne
    /\ now = 0
    /\ \E e \in scn.expiries :
          config = [accessToken |-> InitTok, refreshToken |-> RefreshTok,
                    tokenExpiresAt |-> e]
    /\ settings = [accessToken |-> config.accessToken,
                   refreshToken |-> config.refreshToken,
                   tokenExpiresAt |-> config.tokenExpiresAt]
    /\ persisted = {}
    /\ nextTok = InitTok + 1
    /\ folders = {}
    /\ files = {}
    /\ perms = {}

\* one caller, one upload
Init ==
    /\ scn = [maxTime |-> MaxTime, paths |-> Paths, links |-> LinkOptions,
             expiries |-> InitExpiries, rts |-> RefreshResponses,
             creds |-> InitCreds]
    /\ InitShared
    /\ u = [p \in Procs |-> InitLocal(IF p = 1 THEN 1 ELSE 0)]

\* one caller, uploads one after the other
InitSeq ==
    /\ scn = [maxTime |-> SeqMaxTime, paths |-> SeqPaths, links |-> BothLinks,
             expiries |-> InitExpiries, rts |-> SameRefreshToken,
             creds |-> InitCreds]
    /\ InitShared
    /\ u = [p \in Procs |-> InitLocal(IF p = 1 THEN MaxRuns ELSE 0)]

\* two callers, one upload each, concurrently
InitConc ==
    /\ scn = [maxTime |-> ConcMaxTime, paths |-> ConcPaths, links |-> BothLinks,
             expiries |-> ConcExpiries, rts |-> SameRefreshToken,
             creds |-> InitCreds]
    /\ InitShared
    /\ u = [p \in Procs |-> InitLocal(1)]

\* -------------------------------------------------------------- actions
Tick ==
    /\ now < scn.maxTime
    /\ now' = now + 1
    /\ UNCHANGED <<plugin, flow, listener, scn, config, settings, persisted, nextTok, folders, files, perms, u>>

\* the Upload button of the dialog is clicked (in a dialog opened for the
\* purpose, or in the one a failed upload left open) and uploadFile is
\* called: stage 1, then the call of ensureValidToken
StartUpload(p) ==
    /\ u[p].pc \in {"idle", "done"}
    /\ u[p].modal.handled
    /\ u[p].modal.open => ~u[p].modal.disabled
    /\ u[p].runsLeft > 0
    /\ \E path \in scn.paths :
          u' = [u EXCEPT ![p] =
                  CallToken([InitLocal(u[p].runsLeft - 1) EXCEPT
                               !.modal = Click(IF u[p].modal.open THEN u[p].modal
                                                                  ELSE OpenModal),
                               !.afterDisconnect = plugin.uploaderDisconnected,
                               !.file = IF u[p].modal.open THEN u[p].modal.selected
                                                           ELSE OpenModal.selected,
                               !.path = path,
                               !.events = <<EvPreparing>>,
                               !.prev = u[p].run,
                               !.run = [NoRun EXCEPT !.path = path,
                                                     !.clean = TRUE,
                                                     !.startedEmpty = (folders = {})]],
                            "upload97")]
    /\ UNCHANGED <<plugin, flow, listener, scn, now, config, settings, persisted, nextTok, folders, files, perms>>

\* ensureValidToken up to its first await
EnsureValidToken(p) ==
    /\ u[p].pc = "tok"
    /\ LET l == [u[p] EXCEPT !.call = NewCall(config, now)]
       IN  IF NeedsRefresh(config, now)
           THEN u' = [u EXCEPT ![p] = [l EXCEPT !.pc = "refresh",
                                                !.call.exch = 1,
                                                !.call.rt = config.refreshToken,
                                                !.retried = l.refreshFailed]]
           ELSE u' = [u EXCEPT ![p] = CheckAndReturn(l, config)]
    /\ UNCHANGED <<plugin, flow, listener, scn, now, config, settings, persisted, nextTok, folders, files, perms>>

\* refreshAccessToken resolves: the config is updated and onTokenRefresh
\* is called; it writes the settings and awaits saveSettings
RefreshOk(p) ==
    /\ u[p].pc = "refresh"
    /\ nextTok <= MaxTok
    /\ \E rt \in scn.rts :
         LET newTokens == refreshAccessToken(nextTok, now)
         IN  /\ config' = AfterRefresh(config, newTokens, rt)
             /\ settings' = [accessToken |-> newTokens.accessToken,
                             refreshToken |-> rt,
                             tokenExpiresAt |-> newTokens.expiresAt]
    /\ nextTok' = nextTok + 1
    /\ u' = [u EXCEPT ![p].pc = "persist",
                      ![p].call.persist = @ + 1,
                      ![p].call.issued = nextTok]
    /\ UNCHANGED <<plugin, flow, listener, scn, now, persisted, folders, files, perms>>

\* refreshAccessToken rejects
RefreshFail(p) ==
    /\ u[p].pc = "refresh"
    /\ u' = [u EXCEPT ![p] = Throw([u[p] EXCEPT !.refreshFailed = TRUE],
                                   "refresh-failed")]
    /\ UNCHANGED <<plugin, flow, listener, scn, now, config, settings, persisted, nextTok, folders, files, perms>>

\* onTokenRefresh resolves
PersistOk(p) ==
    /\ u[p].pc = "persist"
    /\ persisted' = persisted \cup {u[p].call.issued}
    /\ plugin' = [InitializeServices(plugin, settings) EXCEPT !.fresh = TRUE]
    /\ u' = [u EXCEPT ![p] = CheckAndReturn(u[p], config)]
    /\ UNCHANGED <<flow, listener, scn, now, config, settings, nextTok, folders, files, perms>>

\* onTokenRefresh rejects (saveData failed)
PersistFail(p) ==
    /\ u[p].pc = "persist"
    /\ u' = [u EXCEPT ![p] = Throw(u[p], "refresh-failed")]
    /\ UNCHANGED <<plugin, flow, listener, scn, now, config, settings, persisted, nextTok, folders, files, perms>>

NewFolder_underRoot(id, name, parent) == [id |-> id, name |-> name, parent |-> Root]

\* the folder createFolder asks for: metadata name and parents
NewFolder(id, name, parent) == [id |-> id, name |-> name, parent |-> parent]

\* the folders the query of findFolder selects
Matches(name, parent) == {f \in folders : f.name = name /\ f.parent = parent}

\* the folder query answers 200: the first match, or none
FindOk(p) ==
    /\ u[p].pc = "findReq"
    /\ LET l == u[p]
           m == Matches(Parts(l.path)[l.idx], l.parentId)
       IN  IF m = {}
           THEN u' = [u EXCEPT ![p] = FindNull(l)]
           ELSE \E f \in m : u' = [u EXCEPT ![p] = FolderStep(l, f.id)]
    /\ UNCHANGED <<plugin, flow, listener, scn, now, config, settings, persisted, nextTok, folders, files, perms>>

\* the folder query throws or answers another status
FindFail(p) ==
    /\ u[p].pc = "findReq"
    /\ u' = [u EXCEPT ![p] = FindNull([u[p] EXCEPT !.run.clean = FALSE,
                                                   !.lookupFailed = TRUE])]
    /\ UNCHANGED <<plugin, flow, listener, scn, now, config, settings, persisted, nextTok, folders, files, perms>>

\* the folder creation answers 200
CreateOk(p) ==
    /\ u[p].pc = "createReq"
    /\ Cardinality(folders) < MaxFolders
    /\ LET l == u[p]
           id == Cardinality(folders) + 1
       IN  /\ folders' = folders \cup {NewFolder(id, Parts(l.path)[l.idx], l.parentId)}
           /\ u' = [u EXCEPT ![p] = FolderStep(l, id)]
    /\ UNCHANGED <<plugin, flow, listener, scn, now, config, settings, persisted, nextTok, files, perms>>

\* the folder creation throws or answers another status
CreateFail(p) ==
    /\ u[p].pc = "createReq"
    /\ u' = [u EXCEPT ![p] = Catch(Failed([u[p] EXCEPT !.run.clean = FALSE], "folder"))]
    /\ UNCHANGED <<plugin, flow, listener, scn, now, config, settings, persisted, nextTok, folders, files, perms>>

\* file.arrayBuffer() resolves: stage 2 and the multipart request, which
\* carries the token read at line 97
ReadOk(p) ==
    /\ u[p].pc = "read"
    /\ u' = [u EXCEPT ![p] = Send([u[p] EXCEPT !.events = Append(@, EvUploading),
                                               !.nUpload = @ + 1],
                                  u[p].accessToken, config, "uploadReq")]
    /\ UNCHANGED <<plugin, flow, listener, scn, now, config, settings, persisted, nextTok, folders, files, perms>>

ReadFail(p) ==
    /\ u[p].pc = "read"
    /\ u' = [u EXCEPT ![p] = Catch(Failed(u[p], "read"))]
    /\ UNCHANGED <<plugin, flow, listener, scn, now, config, settings, persisted, nextTok, folders, files, perms>>

NewFile_inRoot(id, folderId) == [id |-> id, parent |-> Root]

\* the file the multipart request asks for: metadata parents: [folderId]
NewFile(id, folderId) == [id |-> id, parent |-> folderId]

\* stage 3 goes straight to getFileInfo, without makeFilePublic
AfterUpload_skipPublic(l) ==
    CallToken([l EXCEPT !.events = Append(@, EvPermission)], "info")

\* after the upload: the setting-permission event, then makeFilePublic
AfterUpload(l) ==
    CallToken([l EXCEPT !.events = Append(@, EvPermission)], "public")

\* the upload answers 200: stage 3, then makeFilePublic
UploadOk(p) ==
    /\ u[p].pc = "uploadReq"
    /\ Cardinality(files) < MaxFiles
    /\ \E data \in scn.links :
         LET id == FileBase + Cardinality(files) + 1
         IN  /\ files' = files \cup {NewFile(id, u[p].run.folderId)}
             /\ u' = [u EXCEPT ![p] =
                        AfterUpload([u[p] EXCEPT !.fileId = id,
                                                 !.fileData = data])]
    /\ UNCHANGED <<plugin, flow, listener, scn, now, config, settings, persisted, nextTok, folders, perms>>

\* a failed upload request is sent a second time before giving up
UploadFailed_retryOnce(l) ==
    IF l.nUpload < 2 THEN [l EXCEPT !.nUpload = @ + 1]
                     ELSE Catch(Failed(l, "upload"))

\* the requestUrl error, or the Error thrown for a status other than 200,
\* goes to uploadFile's catch
UploadFailed(l) == Catch(Failed(l, "upload"))

\* the upload throws or answers a status other than 200
UploadFail(p) ==
    /\ u[p].pc = "uploadReq"
    /\ u' = [u EXCEPT ![p] = UploadFailed(u[p])]
    /\ UNCHANGED <<plugin, flow, listener, scn, now, config, settings, persisted, nextTok, folders, files, perms>>

PublicOk(p) ==
    /\ u[p].pc = "publicReq"
    /\ perms' = perms \cup {u[p].fileId}
    /\ u' = [u EXCEPT ![p] = AfterPublic(u[p])]
    /\ UNCHANGED <<plugin, flow, listener, scn, now, config, settings, persisted, nextTok, folders, files>>

PublicFail(p) ==
    /\ u[p].pc = "publicReq"
    /\ u' = [u EXCEPT ![p] = PublicFailed(u[p], "request")]
    /\ UNCHANGED <<plugin, flow, listener, scn, now, config, settings, persisted, nextTok, folders, files, perms>>

\* getFileInfo resolves, with the metadata or with {} from its catch
InfoDone(p) ==
    /\ u[p].pc = "infoReq"
    /\ \E info \in scn.links \cup {NoLinks} :
          u' = [u EXCEPT ![p] = Complete([u[p] EXCEPT !.fileInfo = info])]
    /\ UNCHANGED <<plugin, flow, listener, scn, now, config, settings, persisted, nextTok, folders, files, perms>>

\* uploadFile has returned and handleUpload resumes
HandleUploadResume(p) ==
    /\ u[p].pc = "done"
    /\ ~u[p].modal.handled
    /\ u' = [u EXCEPT ![p].modal = Resume(@, u[p].result)]
    /\ UNCHANGED <<plugin, flow, listener, scn, now, config, settings, persisted, nextTok, folders, files, perms>>

\* a file is chosen or dropped in the open dialog, an upload running or not
SelectFile(p) ==
    /\ u[p].modal.open
    /\ \E file \in LocalFiles :
          /\ file # u[p].modal.selected \/ u[p].modal.disabled
          /\ u' = [u EXCEPT ![p].modal = ProcessFile(@, file)]
    /\ UNCHANGED <<plugin, flow, listener, scn, now, config, settings, persisted, nextTok, folders, files, perms>>

\* the Cancel button of the open dialog is clicked
Cancel(p) ==
    /\ u[p].modal.open
    /\ u' = [u EXCEPT ![p].modal = CancelModal(@)]
    /\ UNCHANGED <<plugin, flow, listener, scn, now, config, settings, persisted, nextTok, folders, files, perms>>

\* ---------------------------------------------- the authorization flow
UploadVars == <<scn, now, config, folders, files, perms, u>>

\* listening succeeds on a port another listener holds
CanListen_sharedPort(l) == TRUE

\* the redirect port is fixed, and one listener can hold it
CanListen(l) == l = NoOne

\* any redirect is taken for the answer to this flow
AcceptRedirect_anyState(issued, got) == TRUE

\* the state of the redirect is the nonce the flow issued
AcceptRedirect(issued, got) == issued = got

\* a finished flow leaves its listener on the port
CloseListener_leak(l, c) == l

\* the flow of call c tears its listener down
CloseListener(l, c) == IF l = c THEN NoOne ELSE l

\* the flow of call c fails with an outcome and closes its listener
AuthFail(c, outcome) ==
    /\ flow' = [flow EXCEPT ![c].st = "Failed", ![c].outcome = outcome]
    /\ listener' = CloseListener(listener, c)

\* the plugin's startOAuthFlow without this.oauthFlow: false at once
NotConfigured(f) == [f EXCEPT !.outcome = "NotConfigured", !.ret = "false"]

\* the catch after a rejected saveSettings reports success
AfterSaveFailed_reportsTrue(f) == [f EXCEPT !.ret = "true"]

\* saveSettings rejected after the tokens were written: the catch, false
AfterSaveFailed(f) == [f EXCEPT !.ret = "false"]

\* startOAuthFlow is called: without a configured flow it returns false;
\* otherwise nonce, listener on the fixed port, browser
AuthBegin(c) ==
    /\ flow[c].st = "Idle"
    /\ flow[c].ret = "none"
    /\ IF plugin.oauthFlow = NoCreds
       THEN /\ flow' = [flow EXCEPT ![c] = NotConfigured(@)]
            /\ UNCHANGED listener
       ELSE IF CanListen(listener)
       THEN /\ \E n \in Nonces :
                  flow' = [flow EXCEPT ![c].st = "Listening", ![c].nonce = n]
            /\ listener' = c
       ELSE /\ flow' = [flow EXCEPT ![c].st = "Failed", ![c].outcome = "PortInUse"]
            /\ UNCHANGED listener
    /\ UNCHANGED <<UploadVars, plugin, settings, persisted, nextTok>>

\* the listener receives its one request
AuthRedirect(c) ==
    /\ flow[c].st = "Listening"
    /\ listener = c
    /\ \E got \in Nonces :
          IF AcceptRedirect(flow[c].nonce, got)
          THEN /\ flow' = [flow EXCEPT ![c].st = "CodeReceived", ![c].got = got]
               /\ UNCHANGED listener
          ELSE /\ flow' = [flow EXCEPT ![c].st = "Failed", ![c].got = got,
                                       ![c].outcome = "AuthStateMismatch"]
               /\ listener' = CloseListener(listener, c)
    /\ UNCHANGED <<UploadVars, plugin, settings, persisted, nextTok>>

\* no redirect within the window, or the user gives up
AuthAbort(c) ==
    /\ flow[c].st = "Listening"
    /\ \E outcome \in {"AuthTimeout", "AuthCancelled"} : AuthFail(c, outcome)
    /\ UNCHANGED <<UploadVars, plugin, settings, persisted, nextTok>>

\* the code-for-token request is sent
AuthExchange(c) ==
    /\ flow[c].st = "CodeReceived"
    /\ flow' = [flow EXCEPT ![c].st = "Exchanging", ![c].exchanged = TRUE]
    /\ UNCHANGED <<UploadVars, plugin, listener, settings, persisted, nextTok>>

AuthExchangeOk(c) ==
    /\ flow[c].st = "Exchanging"
    /\ nextTok <= MaxTok
    /\ flow' = [flow EXCEPT ![c].st = "Succeeded", ![c].tokens = nextTok]
    /\ nextTok' = nextTok + 1
    /\ listener' = CloseListener(listener, c)
    /\ UNCHANGED <<UploadVars, plugin, settings, persisted>>

AuthExchangeFail(c) ==
    /\ flow[c].st = "Exchanging"
    /\ AuthFail(c, "AuthProviderError")
    /\ UNCHANGED <<UploadVars, plugin, settings, persisted, nextTok>>

\* the plugin's startOAuthFlow resumes with the tokens and writes them
AuthStore(c) ==
    /\ flow[c].st = "Succeeded"
    /\ ~flow[c].stored
    /\ settings' = [accessToken |-> flow[c].tokens,
                    refreshToken |-> NewRefreshTok,
                    tokenExpiresAt |-> now + ExpiresIn]
    /\ flow' = [flow EXCEPT ![c].stored = TRUE]
    /\ UNCHANGED <<UploadVars, plugin, listener, persisted, nextTok>>

\* saveSettings resolves: true; or rejects: the catch returns false
AuthSaved(c) ==
    /\ flow[c].stored
    /\ flow[c].ret = "none"
    /\ \/ /\ persisted' = persisted \cup {flow[c].tokens}
          /\ plugin' = [InitializeServices(plugin, settings) EXCEPT !.fresh = TRUE]
          /\ flow' = [flow EXCEPT ![c].ret = "true", ![c].saved = TRUE]
       \/ /\ flow' = [flow EXCEPT ![c] = AfterSaveFailed(@)]
          /\ UNCHANGED <<persisted, plugin>>
    /\ UNCHANGED <<UploadVars, listener, settings, nextTok>>

\* the plugin's startOAuthFlow catches the flow's error: false
AuthRejected(c) ==
    /\ flow[c].st = "Failed"
    /\ flow[c].ret = "none"
    /\ flow' = [flow EXCEPT ![c].ret = "false"]
    /\ UNCHANGED <<UploadVars, plugin, listener, settings, persisted, nextTok>>

NextAuth ==
    \/ \E c \in AuthCalls : AuthBegin(c)
    \/ \E c \in AuthCalls : AuthRedirect(c)
    \/ \E c \in AuthCalls : AuthAbort(c)
    \/ \E c \in AuthCalls : AuthExchange(c)
    \/ \E c \in AuthCalls : AuthExchangeOk(c)
    \/ \E c \in AuthCalls : AuthExchangeFail(c)
    \/ \E c \in AuthCalls : AuthStore(c)
    \/ \E c \in AuthCalls : AuthSaved(c)
    \/ \E c \in AuthCalls : AuthRejected(c)

Next ==
    \/ Tick
    \/ \E p \in Procs : HandleUploadResume(p)
    \/ \E p \in Procs : StartUpload(p)
    \/ \E p \in Procs : EnsureValidToken(p)
    \/ \E p \in Procs : RefreshOk(p)
    \/ \E p \in Procs : RefreshFail(p)
    \/ \E p \in Procs : PersistOk(p)
    \/ \E p \in Procs : PersistFail(p)
    \/ \E p \in Procs : FindOk(p)
    \/ \E p \in Procs : FindFail(p)
    \/ \E p \in Procs : CreateOk(p)
    \/ \E p \in Procs : CreateFail(p)
    \/ \E p \in Procs : ReadOk(p)
    \/ \E p \in Procs : ReadFail(p)
    \/ \E p \in Procs : UploadOk(p)
    \/ \E p \in Procs : UploadFail(p)
    \/ \E p \in Procs : PublicOk(p)
    \/ \E p \in Procs : PublicFail(p)
    \/ \E p \in Procs : InfoDone(p)

Spec == Init /\ [][Next]_vars
SpecSeq == InitSeq /\ [][Next]_vars
SpecConc == InitConc /\ [][Next]_vars

\* a step of the uploadFile call of p: a continuation the event loop runs,
\* or the answer or the error of the request the call is waiting for
UploadStep(p) ==
    \/ EnsureValidToken(p)
    \/ RefreshOk(p) \/ RefreshFail(p)
    \/ PersistOk(p) \/ PersistFail(p)
    \/ FindOk(p) \/ FindFail(p)
    \/ CreateOk(p) \/ CreateFail(p)
    \/ ReadOk(p) \/ ReadFail(p)
    \/ UploadOk(p) \/ UploadFail(p)
    \/ PublicOk(p) \/ PublicFail(p)
    \/ InfoDone(p)

\* every request eventually returns a response or an error, and a
\* continuation that is ready is eventually run
SpecLive == Init /\ [][Next]_vars /\ \A p \in Procs : WF_vars(UploadStep(p))

\* ------------------------------------------- disconnecting during uploads
NoTokens == [accessToken |-> 0, refreshToken |-> 0, tokenExpiresAt |-> 0]

\* disconnectGoogleDrive up to its await: the token settings are emptied
\* and this.uploader is set to null; saveSettings is pending
DisconnectStart ==
    /\ plugin.pending = "none"
    /\ ~plugin.disconnected
    /\ settings.accessToken # 0
    /\ settings' = NoTokens
    /\ plugin' = [plugin EXCEPT !.uploader = NoCreds, !.pending = "disconnect"]
    /\ UNCHANGED <<flow, listener, scn, now, config, persisted, nextTok,
                   folders, files, perms, u>>

\* the pending saveSettings resolves, and with it disconnectGoogleDrive
PluginSaved ==
    /\ plugin.pending # "none"
    /\ plugin' = [Saved(plugin, settings) EXCEPT
                     !.disconnected = (plugin.pending = "disconnect")]
    /\ UNCHANGED <<flow, listener, scn, now, config, settings, persisted, nextTok,
                   folders, files, perms, u>>

\* the pending saveSettings rejects: saveData failed
PluginSaveFail ==
    /\ plugin.pending # "none"
    /\ plugin' = [plugin EXCEPT !.pending = "none"]
    /\ UNCHANGED <<flow, listener, scn, now, config, settings, persisted, nextTok,
                   folders, files, perms, u>>

\* GoogleDriveUploader.disconnect() on the uploader the callers hold
UploaderDisconnect ==
    /\ ~plugin.uploaderDisconnected
    /\ config' = [config EXCEPT !.accessToken = 0, !.refreshToken = 0,
                                !.tokenExpiresAt = 0]
    /\ plugin' = [plugin EXCEPT !.uploaderDisconnected = TRUE]
    /\ UNCHANGED <<flow, listener, scn, now, settings, persisted, nextTok,
                   folders, files, perms, u>>

\* an upload while the user disconnects the plugin
NextPlugin ==
    \/ Next
    \/ DisconnectStart
    \/ PluginSaved
    \/ PluginSaveFail

\* one caller with an expired token, one upload
InitPlugin ==
    /\ scn = [maxTime |-> ConcMaxTime, paths |-> ConcPaths, links |-> BothLinks,
             expiries |-> {SafetyMargin}, rts |-> RefreshResponses,
             creds |-> InitCreds]
    /\ InitShared
    /\ u = [p \in Procs |-> InitLocal(IF p = 1 THEN 1 ELSE 0)]

SpecPlugin == InitPlugin /\ [][NextPlugin]_vars

\* uploads on an uploader that is disconnected under them
NextDisconnect ==
    \/ Next
    \/ UploaderDisconnect

\* two callers with an expired token, one upload each
InitDisconnect ==
    /\ scn = [maxTime |-> ConcMaxTime, paths |-> ConcPaths, links |-> BothLinks,
             expiries |-> {SafetyMargin}, rts |-> SameRefreshToken,
             creds |-> InitCreds]
    /\ InitShared
    /\ u = [p \in Procs |-> InitLocal(1)]

SpecDisconnect == InitDisconnect /\ [][NextDisconnect]_vars

\* the calls of startOAuthFlow alone, with no upload running
InitAuth ==
    /\ \E c \in {InitCreds, NoCreds} :
          scn = [maxTime |-> 0, paths |-> {}, links |-> {}, expiries |-> InitExpiries,
                 rts |-> {}, creds |-> c]
    /\ InitShared
    /\ u = [p \in Procs |-> InitLocal(0)]

SpecAuth == InitAuth /\ [][NextAuth]_vars

\* uploads from a dialog in which the user goes on acting
DialogPaths == { <<"A">> }

NextDialog ==
    \/ Next
    \/ \E p \in Procs : SelectFile(p)
    \/ \E p \in Procs : Cancel(p)

\* one caller with an expired token, uploads one after the other
InitDialog ==
    /\ scn = [maxTime |-> SeqMaxTime, paths |-> DialogPaths, links |-> BothLinks,
             expiries |-> {SafetyMargin}, rts |-> SameRefreshToken,
             creds |-> InitCreds]
    /\ InitShared
    /\ u = [p \in Procs |-> InitLocal(IF p = 1 THEN MaxRuns ELSE 0)]

SpecDialog == InitDialog /\ [][NextDialog]_vars

\* the values the user can type into the Client ID and Client Secret fields
CredValues == [id : {0, 1, 2}, secret : {0, 1}]

\* onChange of the Client ID or Client Secret field up to its await: the
\* setting is written and saveSettings is pending
SetCredential ==
    /\ plugin.pending = "none"
    /\ \E c \in CredValues :
          /\ c # plugin.creds
          /\ c.id = plugin.creds.id \/ c.secret = plugin.creds.secret
          /\ plugin' = [plugin EXCEPT !.creds = c, !.pending = "creds",
                                      !.fresh = FALSE]
    /\ UNCHANGED <<flow, listener, scn, now, config, settings, persisted, nextTok,
                   folders, files, perms, u>>

\* connecting while the user edits the credentials
NextSettings ==
    \/ NextAuth
    \/ SetCredential
    \/ PluginSaved
    \/ PluginSaveFail

SpecSettings == InitAuth /\ [][NextSettings]_vars

\* ------------------------------------------------------------ claims
Done(p) == u[p].pc = "done"
Last(s) == s[Len(s)]
Stages(s) == [i \in 1..Len(s) |-> s[i].stage]
Count(s, stage) == Cardinality({i \in 1..Len(s) : s[i].stage = stage})
FourStages == << [stage |-> "preparing", progress |-> 10],
                 [stage |-> "uploading", progress |-> 30],
                 [stage |-> "setting-permission", progress |-> 70],
                 [stage |-> "complete", progress |-> 100] >>
NonDecreasing(s) == \A i, j \in 1..Len(s) : i <= j => s[i].progress <= s[j].progress

\* C1: an uploadFile call in which no step failed, and every call that
\* returned a result, has reported exactly preparing(10), uploading(30),
\* setting-permission(70), complete(100), in this order, percent never
\* decreasing and no error event.
C1_SuccessEvents ==
    \A p \in Procs :
        (Done(p) /\ (u[p].failed = "none" \/ u[p].result.kind = "ok"))
            => /\ u[p].events = FourStages
               /\ NonDecreasing(u[p].events)
               /\ u[p].result.kind = "ok"

C1_Witness ==
    \E p \in Procs : Done(p) /\ u[p].result.kind = "ok" /\ Len(u[p].events) = 4

\* C2: when the token validation, the folder creation, the file read or
\* the upload request of uploadFile fails, the call has ended with the
\* null result, its last event is error with percent 0, it is the only
\* error event and there is no complete event.
C2_FailureOutcome ==
    \A p \in Procs :
        (u[p].failed # "none" \/ u[p].result.kind = "null")
            => /\ Done(p)
               /\ u[p].result = [kind |-> "null", fileId |-> 0]
               /\ Last(u[p].events) = [stage |-> "error", progress |-> 0]
               /\ Count(u[p].events, "error") = 1
               /\ Count(u[p].events, "complete") = 0

C2_Witness ==
    \E p \in Procs : u[p].failed = "upload" /\ Done(p) /\ Len(u[p].events) = 3

\* C3: when the upload request succeeded and the permission step failed
\* (its request, or the token refresh inside it), uploadFile never takes
\* the error path: it ends with complete and a result whose fileId is the
\* id of the stored object.
C3_PermissionFailureTolerated ==
    \A p \in Procs :
        u[p].permFailed # "no"
            => /\ u[p].result.kind # "null"
               /\ u[p].failed = "none"
               /\ Count(u[p].events, "error") = 0
               /\ Done(p) => /\ u[p].result = [kind |-> "ok", fileId |-> u[p].fileId]
                             /\ \E f \in files : f.id = u[p].fileId
                             /\ Last(u[p].events).stage = "complete"

C3_Witness ==
    \E p \in Procs : u[p].permFailed = "token" /\ u[p].refreshFailed /\ Done(p)
                     /\ u[p].result.kind = "ok"

\* C4: a call of ensureValidToken made while the stored token is not
\* expired (now + margin < expiresAt) ends at once, with no refresh
\* exchange and no call of the persistence callback, and returns the
\* stored access token, which it leaves in place.
C4_FastPath ==
    \A p \in Procs :
        (u[p].call.made /\ ~u[p].call.expired)
            => /\ ~u[p].call.open
               /\ u[p].call.exch = 0
               /\ u[p].call.persist = 0
               /\ u[p].call.ret = u[p].call.old
               /\ u[p].call.ret # 0

\* two consecutive calls on the fast path: findFolder's, then createFolder's
C4_Witness ==
    \E p \in Procs : /\ u[p].pc = "createReq"
                     /\ ~u[p].call.expired
                     /\ u[p].run.clean
                     /\ u[p].call.ret = InitTok
                     /\ nextTok = InitTok + 1

\* C5: a call of ensureValidToken made while the stored token is expired
\* (now + margin >= expiresAt, an expiry of 0 included) performs exactly
\* one refresh exchange and, when it returns a token, returns the newly
\* issued one and not the one stored at the call.
C5_ExpiredRefreshes ==
    \A p \in Procs :
        (u[p].call.made /\ ~u[p].call.open /\ u[p].call.expired)
            => /\ u[p].call.exch = 1
               /\ u[p].call.ret # 0 => u[p].call.ret # u[p].call.old

\* C6: a successful refresh exchange calls onTokenRefresh exactly once,
\* and an access token issued by a refresh is handed to a caller of
\* ensureValidToken only after its onTokenRefresh has completed.
C6_PersistedBeforeHandOver ==
    \A p \in Procs :
        /\ u[p].call.issued # 0 => u[p].call.persist = 1
        /\ (u[p].call.made /\ ~u[p].call.open /\ u[p].call.ret \notin {0, InitTok})
              => u[p].call.ret \in persisted

\* C7: within one uploadFile call, once a refresh exchange was rejected no
\* further refresh exchange is started and the call does not end with a
\* result.
C7_RejectedRefreshIsTerminal ==
    \A p \in Procs :
        u[p].refreshFailed => /\ ~u[p].retried
                              /\ u[p].result.kind # "ok"

\* C8: every authenticated request leaves with the access token that the
\* uploader's config holds at that moment.
C8_RequestsCarryCurrentToken ==
    \A p \in Procs : u[p].sent.tok = u[p].sent.cur

\* C9: at most one refresh exchange is in flight at any time.
C9_SingleFlight ==
    Cardinality({p \in Procs : u[p].pc = "refresh"}) <= 1

RECURSIVE NamesTo(_)
\* the names of the folders on the way from the root to folder id
NamesTo(id) ==
    IF id = Root THEN <<>>
    ELSE LET f == CHOOSE g \in folders : g.id = id
         IN  Append(NamesTo(f.parent), f.name)

ResolvedOnEmpty(r) == r.resolved /\ r.clean /\ r.startedEmpty

\* C10: resolving a path of n segments against a backend without folders,
\* every request succeeding, makes n lookups and n creations, each folder
\* under the one of the segment before; resolving the same path again
\* makes n lookups, no creation and ends in the same folder.
C10_FolderResolution ==
    \A p \in Procs :
        LET r == u[p].run
            n == Len(Parts(r.path))
        IN  /\ ResolvedOnEmpty(r)
                => /\ r.nCreate = n
                   /\ r.nLookup = n
                   /\ Cardinality(folders) = n
                   /\ NamesTo(r.folderId) = Parts(r.path)
            /\ (r.resolved /\ r.clean /\ ResolvedOnEmpty(u[p].prev)
                  /\ Parts(u[p].prev.path) = Parts(r.path))
                => /\ r.nCreate = 0
                   /\ r.nLookup = n
                   /\ r.folderId = u[p].prev.folderId

C10_Witness ==
    \E p \in Procs :
        /\ u[p].run.resolved /\ u[p].run.clean
        /\ ResolvedOnEmpty(u[p].prev)
        /\ u[p].prev.nCreate = 3
        /\ u[p].prev.path = u[p].run.path
        /\ u[p].run.nCreate = 0

\* C11: when two uploads resolve the same new folder path concurrently,
\* folders with the same name and parent may be created twice, and still
\* every upload none of whose steps failed ends with a result, and its
\* file is stored in a folder whose names from the root are the path.
C11_DuplicateFoldersHarmless ==
    \A p \in Procs :
        (Done(p) /\ (u[p].failed = "none" \/ u[p].result.kind = "ok"))
            => /\ u[p].result.kind = "ok"
               /\ \E f \in files : /\ f.id = u[p].result.fileId
                                   /\ NamesTo(f.parent) = Parts(u[p].path)

C11_Witness ==
    /\ \A p \in Procs : Done(p) /\ u[p].result.kind = "ok"
    /\ \E f, g \in folders : f.id # g.id /\ f.name = g.name /\ f.parent = g.parent
    /\ \E f, g \in files : f.parent # g.parent

\* C12: each URL of the result is the provider's whenever the upload
\* response or the metadata response carried it, and is made from the id
\* of the uploaded object only when both omitted it.
C12_ProviderUrlsPreferred ==
    \A p \in Procs :
        (Done(p) /\ u[p].result.kind = "ok")
            => /\ u[p].links.view =
                     IF u[p].fileData.view \/ u[p].fileInfo.view
                     THEN [src |-> "provider", id |-> u[p].fileId]
                     ELSE [src |-> "synth", id |-> u[p].fileId]
               /\ u[p].links.content =
                     IF u[p].fileData.content \/ u[p].fileInfo.content
                     THEN [src |-> "provider", id |-> u[p].fileId]
                     ELSE [src |-> "synth", id |-> u[p].fileId]

C14_NoUploadRetry ==
    \A p \in Procs :
        /\ u[p].nUpload <= 1
        /\ u[p].pc \in {"uploadReq", "publicReq", "infoReq"} => u[p].nUpload = 1
        /\ u[p].failed = "upload"
              => /\ Done(p)
                 /\ u[p].nUpload = 1
                 /\ u[p].result = [kind |-> "null", fileId |-> 0]
                 /\ Last(u[p].events).stage = "error"
                 /\ u[p].fileId = 0

C14_Witness ==
    \E p \in Procs : Done(p) /\ u[p].failed = "upload" /\ u[p].nUpload = 1

\* the dialog has dealt with the null result of a failed upload
ShownFailure(p) == Done(p) /\ u[p].modal.handled /\ u[p].result.kind = "null"

\* C15: the message the caller shows for a failed upload differs between a
\* rejected refresh, a not-connected state, a folder-creation failure and an
\* upload transport failure.
C15_DistinctMessages ==
    \A p, q \in Procs :
        ( /\ ShownFailure(p) /\ ShownFailure(q)
          /\ {u[p].failed, u[q].failed}
                 \subseteq {"refresh-failed", "not-connected", "folder", "upload"}
          /\ u[p].failed # u[q].failed )
            => u[p].modal.notice # u[q].modal.notice

\* C16: the dialog invokes its completion callback exactly once for each
\* upload that returned a non-null result, with that result, and never for
\* an upload that returned null; after a failed upload the Upload button is
\* enabled again.
C16_CompletionCallback ==
    \A p \in Procs :
        /\ ~u[p].modal.handled => u[p].modal.nComplete = 0
        /\ (Done(p) /\ u[p].modal.handled /\ u[p].result.kind = "ok")
              => u[p].modal.nComplete = 1 /\ u[p].modal.arg = u[p].result
        /\ ShownFailure(p)
              => /\ u[p].modal.nComplete = 0
                 /\ ~u[p].modal.disabled

\* a failed upload, a second click in the same dialog, and a result inserted
C16_Witness ==
    \E p \in Procs : /\ Done(p) /\ u[p].modal.handled
                     /\ u[p].result.kind = "ok"
                     /\ u[p].modal.nComplete = 1
                     /\ u[p].runsLeft = 0
                     /\ ~u[p].prev.resolved /\ u[p].prev.path # <<>>

\* the flow of call c has begun and has not ended
Outstanding(c) == flow[c].st \in {"Listening", "CodeReceived", "Exchanging"}
Terminal(c) == flow[c].st \in {"Succeeded", "Failed"}

C18_StateMismatchRejected ==
    \A c \in AuthCalls :
        (flow[c].got # 0 /\ flow[c].got # flow[c].nonce)
            => /\ flow[c].st = "Failed"
               /\ flow[c].outcome = "AuthStateMismatch"
               /\ ~flow[c].exchanged
               /\ flow[c].tokens = 0 /\ ~flow[c].stored
               /\ flow[c].ret # "true"

C18_Witness ==
    \E c \in AuthCalls : /\ flow[c].got # 0 /\ flow[c].got # flow[c].nonce
                         /\ flow[c].ret = "false"

\* the steps of a flow: forward along the chain, or to Failed
FlowSteps ==
    { <<"Idle", "Listening">>, <<"Listening", "CodeReceived">>,
      <<"CodeReceived", "Exchanging">>, <<"Exchanging", "Succeeded">> }
    \cup { <<st, "Failed">> : st \in {"Idle", "Listening", "CodeReceived", "Exchanging"} }

\* C19: the flow moves only along Idle -> Listening -> CodeReceived ->
\* Exchanging -> Succeeded or Failed, and in every terminal state the
\* redirect listener is closed; the listener never outlives the flow.
C19_FlowStatesAndListener ==
    /\ [](\A c \in AuthCalls : /\ Terminal(c) => listener # c
                               /\ listener = c => Outstanding(c))
    /\ [][\A c \in AuthCalls :
             flow'[c].st # flow[c].st => <<flow[c].st, flow'[c].st>> \in FlowSteps]_vars

\* one flow has succeeded and one has failed after listening, both closed
C19_Witness ==
    /\ listener = NoOne
    /\ \E c, d \in AuthCalls :
          /\ flow[c].st = "Succeeded" /\ flow[c].ret = "true"
          /\ flow[d].st = "Failed" /\ flow[d].nonce # 0

\* the uploadFile call of p is running
Running(p) == u[p].pc \notin {"idle", "done"}

\* C20: provided every network request eventually returns a response or an
\* error, every uploadFile call eventually terminates, and its final
\* progress event is exactly one of complete or error.
C20_UploadTerminates ==
    \A p \in Procs :
        Running(p) ~> ( /\ Done(p)
                        /\ Last(u[p].events).stage \in {"complete", "error"}
                        /\ Count(u[p].events, "complete")
                              + Count(u[p].events, "error") = 1
                        /\ u[p].result.kind \in {"ok", "null"} )

\* a call that went through a refresh and three folder levels has ended
C20_Witness ==
    \E p \in Procs : /\ Done(p)
                     /\ u[p].call.persist > 0
                     /\ u[p].run.nLookup = 3
                     /\ Last(u[p].events).stage = "complete"

\* C21: a refresh never changes the refresh token the uploader uses: after
\* any number of successful refreshes its stored refresh token is the one it
\* was configured with, and every refresh exchange is sent with that token,
\* whatever refresh-token value the refresh response carried.
C21_RefreshTokenKept ==
    /\ config.refreshToken = RefreshTok
    /\ \A p \in Procs : u[p].call.exch > 0 => u[p].call.rt = RefreshTok

\* a second exchange is in flight after a response that carried a new
\* refresh token
C21_Witness ==
    \E p \in Procs : /\ u[p].pc = "refresh"
                     /\ nextTok > InitTok + 1
                     /\ settings.refreshToken = NewRefreshTok
                     /\ u[p].call.rt = RefreshTok

\* C22: a folder is created for a path segment only when the lookup for
\* (name, parent) succeeded and reported no match; a lookup that fails never
\* leads to creating a folder that already exists.
C22_NoCreateAfterFailedLookup ==
    \A p \in Procs :
        (u[p].pc = "createReq" /\ u[p].lookupFailed)
            => Matches(Parts(u[p].path)[u[p].idx], u[p].parentId) = {}

\* the latest call of ensureValidToken by p has thrown
Threw(p) == u[p].call.made /\ ~u[p].call.open /\ u[p].call.ret = 0

\* C23: whenever ensureValidToken throws, the uploader's stored access token
\* and expiry are those from before the call; a failure of the persistence
\* callback after a successful exchange leaves no new token in the config.
C23_FailedCallLeavesConfig ==
    \A p \in Procs :
        Threw(p) => /\ config.accessToken = u[p].call.old
                    /\ config.tokenExpiresAt = u[p].call.oldExp

\* C24: after disconnectGoogleDrive has completed the plugin stays
\* disconnected (isConnected() false, stored access and refresh token
\* empty), even when a refresh started by an earlier upload completes later.
C24_StaysDisconnected ==
    plugin.disconnected
        => /\ ~IsConnected
           /\ settings.accessToken = 0
           /\ settings.refreshToken = 0

\* C29: after GoogleDriveUploader.disconnect() every subsequent uploadFile
\* call on that uploader sends no network request (no refresh exchange, no
\* storage request) and reports failure.
C29_NoRequestAfterDisconnect ==
    \A p \in Procs :
        u[p].afterDisconnect
            => /\ u[p].pc \notin {"refresh", "persist", "findReq", "createReq",
                                  "uploadReq", "publicReq", "infoReq"}
               /\ u[p].sent.tok = 0
               /\ Done(p) => u[p].result.kind = "null"

\* C30: the plugin's startOAuthFlow returns true exactly when the new
\* tokens have been written to the settings and saved; when the flow fails
\* or no OAuth flow is configured it returns false and leaves the stored
\* token fields and the connection state unchanged.
C30_TrueIffStoredAndSaved ==
    /\ \A c \in AuthCalls :
          /\ flow[c].ret = "true"
                => /\ flow[c].stored /\ flow[c].saved
                   /\ flow[c].tokens \in persisted
          /\ flow[c].saved => flow[c].ret = "true"
          /\ (flow[c].st = "Failed" \/ flow[c].outcome = "NotConfigured")
                => ~flow[c].stored /\ flow[c].ret # "true"
          /\ (flow[c].stored /\ flow[c].ret = "false") => ~flow[c].saved
    /\ (\A c \in AuthCalls : ~flow[c].stored)
          => /\ settings = [accessToken |-> InitTok, refreshToken |-> RefreshTok,
                            tokenExpiresAt |-> config.tokenExpiresAt]
             /\ plugin = LoadedPlugin(scn.creds)
             /\ persisted = {}

\* one call has returned true, another has returned false after its tokens
\* were written and the save failed
C30_Witness ==
    \E c, d \in AuthCalls : /\ flow[c].ret = "true" /\ flow[c].saved
                            /\ flow[d].stored /\ flow[d].ret = "false"

\* C25: after every saveSettings the plugin's OAuth flow and uploader are
\* configured with the client id and client secret currently in the
\* settings; when either credential is empty, no OAuth flow or uploader
\* built from earlier credentials remains and isConnected() is false.
C25_ServicesFollowCredentials ==
    (plugin.fresh /\ plugin.pending = "none")
        => IF plugin.creds.id # 0 /\ plugin.creds.secret # 0
           THEN /\ plugin.oauthFlow = plugin.creds
                /\ plugin.uploader \in {NoCreds, plugin.creds}
           ELSE /\ plugin.oauthFlow = NoCreds
                /\ plugin.uploader = NoCreds
                /\ ~IsConnected

\* C26: the file the dialog passes to its completion callback is the file
\* whose upload produced the accompanying result, under any sequence of file
\* selections made while an upload is in progress.
C26_CallbackFileIsUploadedFile ==
    \A p \in Procs :
        (Done(p) /\ u[p].modal.handled /\ u[p].modal.nComplete > 0)
            => u[p].modal.argFile = u[p].file

\* C27: from the click that starts an upload until that upload ends, the
\* Upload button stays disabled under every sequence of user actions, so at
\* most one upload is in flight per dialog.
C27_ButtonDisabledWhileUploading ==
    \A p \in Procs :
        (Running(p) /\ u[p].modal.open) => u[p].modal.disabled

\* C28: once the dialog has been closed with Cancel, the completion callback
\* is never invoked afterwards.
C28_NoCallbackAfterCancel ==
    \A p \in Procs : u[p].modal.cancelled => u[p].modal.nComplete = 0

TypeOK ==
    /\ now \in 0..MaxTime
    /\ config.accessToken \in 0..MaxTok
    /\ \A p \in Procs : u[p].pc \in {"idle", "tok", "refresh", "persist", "findReq",
                                     "createReq", "read", "uploadReq", "publicReq",
                                     "infoReq", "done"}
=============================================================================
